---- MODULE Spec2Model ----
(***************************************************************************)
(* Model of src/handlers/handlers.go of spotify-status: the two OAuth      *)
(* callback handlers (SlackCallbackHandler = hop 1, SpotifyCallbackHandler *)
(* = hop 2), writeResponse, and the parts of net/http they drive           *)
(* (ResponseWriter, cookies).  Requests are handled concurrently, one      *)
(* handler step at a time.                                                 *)
(*                                                                         *)
(* Strings that pass through a conversion (cookie values) are sequences    *)
(* of one-character strings; time is in seconds.                           *)
(***************************************************************************)
EXTENDS Integers, Sequences, FiniteSets, TLC

\* ---------------------------------------------------------------- bounds
MaxRequests == 2
MaxTicks == 1

\* ------------------------------------------------------------- constants
OneHour == 3600
StatusSeeOther == 303
StatusOK == 200

Requests == 1..MaxRequests

\* h.spotifyState: fixed at construction (NewHandlers), never assigned after.
spotifyState == "state-1"
OtherState == "state-x"

\* ------------------------------------------------- app_error (catalogue)
\* The app_error package: each entry has a message (Error()) and a status
\* (Status()).
app_error ==
    [ InvalidCookie          |-> [message |-> "InvalidCookie",          status |-> 400],
      InvalidSpotifyAuthCode |-> [message |-> "InvalidSpotifyAuthCode", status |-> 400],
      AddUserError           |-> [message |-> "AddUserError",           status |-> 500],
      SlackAuthBadRequest    |-> [message |-> "SlackAuthBadRequest",    status |-> 500] ]

\* ------------------------------------------------------- cookie encoding
\* net/http validCookieValueByte: 0x20 <= b < 0x7f, b # '"', ';', '\'.
\* The alphabet of the model: letters and digits are valid, so are space
\* and comma; the double quote and the semicolon are not.
Quote == "\""
ValidChars == {"U", "V", "t", "1", "2", " ", ","}
InvalidChars == {Quote, ";"}

validCookieValueByte(b) == b \in ValidChars

ContainsAny(v, cs) == \E i \in 1..Len(v) : v[i] \in cs

\* net/http sanitizeCookieValue, as http.SetCookie applies it to
\* Cookie.Value: invalid bytes are dropped; a value holding a space or a
\* comma is wrapped in double quotes.
sanitizeCookieValue(v) ==
    LET s == SelectSeq(v, validCookieValueByte)
    IN  IF ContainsAny(s, {" ", ","}) THEN <<Quote>> \o s \o <<Quote>> ELSE s

\* net/http parseCookieValue(raw, allowDoubleQuote = true), as r.Cookie
\* applies it: surrounding double quotes are stripped, then any invalid
\* byte makes the cookie unreadable.
parseCookieValue(raw) ==
    LET v == IF Len(raw) > 1 /\ raw[1] = Quote /\ raw[Len(raw)] = Quote
             THEN SubSeq(raw, 2, Len(raw) - 1) ELSE raw
    IN  [ok |-> \A i \in 1..Len(v) : validCookieValueByte(v[i]), value |-> v]

\* r.Cookie(name): the first readable cookie of that name in the request's
\* Cookie header, or http.ErrNoCookie.
RECURSIVE FindCookie(_, _, _)
FindCookie(header, name, i) ==
    IF i > Len(header) THEN [err |-> TRUE, Value |-> <<>>]
    ELSE IF header[i].Name = name /\ parseCookieValue(header[i].Raw).ok
         THEN [err |-> FALSE, Value |-> parseCookieValue(header[i].Raw).value]
         ELSE FindCookie(header, name, i + 1)

\* Mutant of Cookie: a missing cookie reads as an empty value, no error.
CookieOrDefault(header, name) ==
    [err |-> FALSE, Value |-> FindCookie(header, name, 1).Value]

Cookie(header, name) == FindCookie(header, name, 1)

\* ---------------------------------------------------- http.ResponseWriter
NoHeader == [ContentType |-> "", Location |-> <<>>, SetCookie |-> <<>>]

\* A fresh ResponseWriter: nothing written.  header is the live map the
\* handler edits (w.Header()); sent is the copy frozen by WriteHeader, which
\* is what goes on the wire.
NewResponseWriter ==
    [wroteHeader |-> FALSE, status |-> 0, header |-> NoHeader, sent |-> NoHeader,
     body |-> <<>>, log |-> <<>>]

\* w.WriteHeader(status): the first call fixes the status and the headers.
WriteHeader(w, status) ==
    IF w.wroteHeader THEN [w EXCEPT !.log = Append(@, "WriteHeader")]
    ELSE [w EXCEPT !.wroteHeader = TRUE, !.status = status, !.sent = w.header,
                   !.log = Append(@, "WriteHeader")]

\* w.Header().Set("Content-Type", v): edits the live map only.
SetContentType(w, v) ==
    [w EXCEPT !.header.ContentType = v, !.log = Append(@, "Header.Set")]

\* w.Write(b): an implicit WriteHeader(200) if none was written yet.
Write(w, b) ==
    LET w1 == IF w.wroteHeader THEN w
              ELSE [w EXCEPT !.wroteHeader = TRUE, !.status = StatusOK, !.sent = w.header]
    IN  [w1 EXCEPT !.body = Append(@, b), !.log = Append(@, "Write")]

\* json.Marshal of the payload.  Every payload the handlers pass is a
\* string (appError.Error()), for which Marshal has no error return.
Marshal(resp) == [err |-> FALSE, bytes |-> <<"json", resp>>]

\* h.writeResponse(w, resp, status), lines 47-55, in the order of the code:
\* WriteHeader, Header().Set, Marshal, (log.Fatalf | Write).
writeResponse(w, resp, status) ==
    LET w0 == [w EXCEPT !.log = Append(@, "writeResponse")]
        w1 == WriteHeader(w0, status)
        w2 == SetContentType(w1, "application/json")
        m  == Marshal(resp)
    IN  IF m.err THEN [w2 EXCEPT !.log = Append(@, "log.Fatalf")] ELSE Write(w2, m.bytes)

\* log.Fatalf in writeResponse: taken exactly when Marshal fails.
writeResponseFatal(resp) == Marshal(resp).err

\* Mutant of SetCookie: a value holding an invalid byte yields no line.
SetCookieStrict(w, name, value, expires) ==
    IF \A k \in 1..Len(value) : validCookieValueByte(value[k])
    THEN [w EXCEPT !.header.SetCookie =
                       Append(@, [Name |-> name, Raw |-> sanitizeCookieValue(value),
                                  Expires |-> expires]),
                   !.log = Append(@, "SetCookie")]
    ELSE [w EXCEPT !.log = Append(@, "SetCookie")]

\* http.SetCookie(w, &cookie): adds the Set-Cookie line built by
\* cookie.String() (names "user_id" and "slack_access_token" are valid
\* cookie names, so the line is never empty).
SetCookie(w, name, value, expires) ==
    [w EXCEPT !.header.SetCookie =
                  Append(@, [Name |-> name, Raw |-> sanitizeCookieValue(value),
                             Expires |-> expires]),
              !.log = Append(@, "SetCookie")]

\* spotifyAuthenticator.AuthURL(state): the authorization URL carrying state.
AuthURL(state) == <<"https://accounts.spotify.com/authorize", state>>

\* http.Redirect(w, r, url, code) for a GET request: Location, a default
\* Content-Type, WriteHeader(code), then a short HTML body.
Redirect(w, url, code) ==
    LET hadCT == w.header.ContentType # ""
        w0 == [w EXCEPT !.log = Append(@, "Redirect"),
                        !.header.Location = url,
                        !.header.ContentType =
                            IF hadCT THEN @ ELSE "text/html; charset=utf-8"]
        w1 == WriteHeader(w0, code)
    IN  IF hadCT THEN w1 ELSE Write(w1, <<"html", "See Other">>)

\* http.ServeFile(w, r, "./static/completed/index.html") for a plain GET of
\* the existing asset: Content-Type by extension, status 200, the file.
CompletedAsset == <<"file", "./static/completed/index.html">>

ServeFile(w) ==
    LET w0 == [w EXCEPT !.log = Append(@, "ServeFile"),
                        !.header.ContentType = "text/html; charset=utf-8"]
    IN  Write(WriteHeader(w0, StatusOK), CompletedAsset)

\* ------------------------------------------------ chat token endpoint
\* What the POST of line 116 can bring back.  A JSON field is missing, a
\* number (wrong type for the Go struct) or a string.
Str(s) == [t |-> "string", s |-> s]
Missing == [t |-> "missing", s |-> <<>>]
Number == [t |-> "number", s |-> <<>>]

ChatBodies ==
    { [kind |-> "garbage", id |-> Missing, access_token |-> Missing],
      [kind |-> "json", id |-> Missing, access_token |-> Missing],
      [kind |-> "json", id |-> Number, access_token |-> Str(<<"t", "1">>)],
      [kind |-> "json", id |-> Str(<<"U", "1">>), access_token |-> Str(<<"t", "1">>)],
      [kind |-> "json", id |-> Str(<<"U", " ">>), access_token |-> Str(<<"t", ";">>)] }

NoBody == [kind |-> "none", id |-> Missing, access_token |-> Missing]

ChatStatuses == {200, 500}

\* The bodies a response of status st is tried with: any of them under a 2xx
\* status; under another status, text that is not JSON and the full answer.
BodiesWith(st) ==
    IF st \in 200..299
    THEN ChatBodies
    ELSE { b \in ChatBodies : b.kind = "garbage" \/ b.id = Str(<<"U", "1">>) }

\* Mutant of Unmarshal: text that is not JSON is taken as an empty object.
UnmarshalLenient(body) ==
    [err |-> body.id.t = "number" \/ body.access_token.t = "number",
     Id |-> body.id.s,
     AccessToken |-> body.access_token.s]

\* json.Unmarshal(body, &slackAuthResponse), lines 134-149: an error for
\* text that is not JSON or a field of the wrong type; an absent field
\* leaves the zero value "".
Unmarshal(body) ==
    [err |-> body.kind # "json" \/ body.id.t = "number" \/ body.access_token.t = "number",
     Id |-> body.id.s,
     AccessToken |-> body.access_token.s]

\* ------------------------------------------------ music token endpoint
SpotifyTokens ==
    { [AccessToken |-> "sa1", RefreshToken |-> "sr1", Expiry |-> 7200, TokenType |-> "Bearer"] }

NoToken == [AccessToken |-> "", RefreshToken |-> "", Expiry |-> 0, TokenType |-> ""]

\* The query of a callback to /spotify/callback: a code with the configured
\* state, a code with another state, no code, and the platform's error.
CodeQuery == [error |-> "", code |-> "c1", state |-> spotifyState]

Queries ==
    { CodeQuery,
      [error |-> "", code |-> "c1", state |-> OtherState],
      [error |-> "", code |-> "", state |-> spotifyState],
      [error |-> "access_denied", code |-> "", state |-> spotifyState] }

NoQuery == [error |-> "", code |-> "", state |-> ""]

\* Mutant of TokenPrecheckFails: the state of the callback is not compared.
TokenPrecheckNoState(state, q) == q.error # "" \/ q.code = ""

\* spotify.Authenticator.Token(state, r) up to the exchange: the checks of
\* the callback's query (error, code, state) that fail before any exchange.
TokenPrecheckFails(state, q) == q.error # "" \/ q.code = "" \/ q.state # state

\* domain.User as built at lines 88-95.
NewUser(userID, slackAccessToken, spotifyToken) ==
    [SlackUserID         |-> userID,
     SlackAccessToken    |-> slackAccessToken,
     SpotifyAccessToken  |-> spotifyToken.AccessToken,
     SpotifyRefreshToken |-> spotifyToken.RefreshToken,
     SpotifyExpiry       |-> spotifyToken.Expiry,
     SpotifyTokenType    |-> spotifyToken.TokenType]

\* ------------------------------------------------------------------ state
VARIABLES
    reqs,          \* request -> the handler invocation serving it (locals, position, ResponseWriter)
    addUserCalls,  \* request -> its calls of h.services.AddUser, in order: the user passed and whether the call failed
    now,           \* time.Now(), in seconds
    exited         \* TRUE once log.Fatalf has ended the process

vars == <<reqs, addUserCalls, now, exited>>

NoRequest ==
    [kind |-> "none", pc |-> "idle", cookies |-> <<>>, query |-> NoQuery, jar |-> 0,
     chatErr |-> "", chatStatus |-> 0, body |-> NoBody, Id |-> <<>>, AccessToken |-> <<>>,
     userID |-> <<>>, slackAccessToken |-> <<>>, exchange |-> "", spotifyToken |-> NoToken,
     issuedAt |-> 0, calls |-> <<>>, w |-> NewResponseWriter,
     gone |-> FALSE, exchangeCtxDone |-> FALSE, stateChecked |-> ""]

Init ==
    /\ reqs = [i \in Requests |-> NoRequest]
    /\ addUserCalls = [i \in Requests |-> <<>>]
    /\ now = 0
    /\ exited = FALSE

\* Requests arrive in the order of their numbers.
CanStart(i) ==
    /\ ~exited
    /\ reqs[i].kind = "none"
    /\ \A j \in Requests : j < i => reqs[j].kind # "none"

At(i, kind, pc) == ~exited /\ reqs[i].kind = kind /\ reqs[i].pc = pc

\* ctx := r.Context(), line 63: the request's context, which net/http cancels
\* when the client's connection closes.  TRUE = cancelled.
RequestContext(r) == r.gone

\* Mutant of ExchangeContext: the exchange runs under the request's context.
ExchangeUnderRequestContext(r) == r.gone

\* The context of the token exchange: the one the authenticator was built
\* with, which no request cancels.
ExchangeContext(r) == FALSE

\* Mutant of TokenState: the callback's state is compared with itself.
TokenStateFromRequest(r) == r.query.state

\* The state Token is given to compare the callback's state with, line 80:
\* h.spotifyState.
TokenState(r) == spotifyState

\* Mutant of Fail: the error path ends the process.
FailFatal(i, r, appError) ==
    /\ reqs' = [reqs EXCEPT ![i] =
                   [r EXCEPT !.pc = "done",
                             !.w = writeResponse(r.w, appError.message, appError.status)]]
    /\ exited' = TRUE

\* The handler of request i ends with an error written by writeResponse.
Fail(i, r, appError) ==
    /\ reqs' = [reqs EXCEPT ![i] =
                   [r EXCEPT !.pc = "done",
                             !.w = writeResponse(r.w, appError.message, appError.status)]]
    /\ exited' = (exited \/ writeResponseFatal(appError.message))

\* ------------------------------------------- hop 1: SlackCallbackHandler
\* The router hands a GET /slack/callback to the handler.
StartHop1(i) ==
    /\ CanStart(i)
    /\ reqs' = [reqs EXCEPT ![i] = [NoRequest EXCEPT !.kind = "hop1", !.pc = "post"]]
    /\ UNCHANGED <<addUserCalls, now, exited>>

\* Lines 109-122: http.Post to h.slackAuthURL; a transport error ends the
\* request, any response (whatever its status) goes on.
Hop1Post(i) ==
    /\ At(i, "hop1", "post")
    /\ LET r == [reqs[i] EXCEPT !.calls = Append(@, "http.Post")]
       IN  \/ Fail(i, [r EXCEPT !.chatErr = "post"], app_error.SlackAuthBadRequest)
           \/ \E st \in ChatStatuses :
                /\ reqs' = [reqs EXCEPT ![i] = [r EXCEPT !.pc = "read", !.chatStatus = st]]
                /\ UNCHANGED exited
    /\ UNCHANGED <<addUserCalls, now>>

\* Lines 124-132: io.ReadAll(resp.Body).
Hop1ReadAll(i) ==
    /\ At(i, "hop1", "read")
    /\ LET r == [reqs[i] EXCEPT !.calls = Append(@, "io.ReadAll")]
       IN  \/ Fail(i, [r EXCEPT !.chatErr = "read"], app_error.SlackAuthBadRequest)
           \/ \E b \in BodiesWith(r.chatStatus) :
                /\ reqs' = [reqs EXCEPT ![i] = [r EXCEPT !.pc = "unmarshal", !.body = b]]
                /\ UNCHANGED exited
    /\ UNCHANGED <<addUserCalls, now>>

\* Lines 134-155: json.Unmarshal into slackAuthResponse.
Hop1Unmarshal(i) ==
    /\ At(i, "hop1", "unmarshal")
    /\ LET r == reqs[i]
           u == Unmarshal(r.body)
       IN  IF u.err
           THEN Fail(i, r, app_error.SlackAuthBadRequest)
           ELSE /\ reqs' = [reqs EXCEPT ![i] =
                               [r EXCEPT !.pc = "issue", !.Id = u.Id,
                                         !.AccessToken = u.AccessToken]]
                /\ UNCHANGED exited
    /\ UNCHANGED <<addUserCalls, now>>

\* Mutant of Hop1Issue: hop 1 also records a link for the chat identity.
Hop1IssueAddUser(i) ==
    /\ At(i, "hop1", "issue")
    /\ LET r == reqs[i]
           expiration == now + OneHour
           w1 == SetCookie(r.w, "user_id", r.Id, expiration)
           w2 == SetCookie(w1, "slack_access_token", r.AccessToken, expiration)
       IN  /\ reqs' = [reqs EXCEPT ![i] =
                          [r EXCEPT !.pc = "done", !.issuedAt = now,
                                    !.w = Redirect(w2, AuthURL(spotifyState), StatusSeeOther)]]
           /\ addUserCalls' = [addUserCalls EXCEPT ![i] =
                                  Append(@, [user |-> NewUser(r.Id, r.AccessToken, NoToken),
                                             err |-> FALSE, ctxDone |-> FALSE])]
    /\ UNCHANGED <<now, exited>>

\* Lines 157-165: the two cookies, then the redirect to the music
\* platform's authorization URL.
Hop1Issue(i) ==
    /\ At(i, "hop1", "issue")
    /\ LET r == reqs[i]
           expiration == now + OneHour
           w1 == SetCookie(r.w, "user_id", r.Id, expiration)
           w2 == SetCookie(w1, "slack_access_token", r.AccessToken, expiration)
           spotifyAuthURL == AuthURL(spotifyState)
       IN  reqs' = [reqs EXCEPT ![i] =
                       [r EXCEPT !.pc = "done", !.issuedAt = now,
                                 !.w = Redirect(w2, spotifyAuthURL, StatusSeeOther)]]
    /\ UNCHANGED <<addUserCalls, now, exited>>

\* ------------------------------------------------------------- the client
\* The cookies a browser holds from the answered hop-1 request j and still
\* sends at the present time: each delivered Set-Cookie line that has not
\* expired, as Name=Raw.
RECURSIVE Unexpired(_, _)
Unexpired(lines, t) ==
    IF lines = <<>> THEN <<>>
    ELSE LET c == Head(lines)
         IN  (IF t < c.Expires THEN <<[Name |-> c.Name, Raw |-> c.Raw]>> ELSE <<>>)
             \o Unexpired(Tail(lines), t)

Jar(j) == Unexpired(reqs[j].w.sent.SetCookie, now)

Issued(j) == reqs[j].kind = "hop1" /\ reqs[j].pc = "done" /\ reqs[j].w.sent.SetCookie # <<>>

\* A Cookie header no hop 1 issued: a user_id r.Cookie cannot read, then a
\* readable one, and a slack_access_token.
ForgedHeaders ==
    { <<[Name |-> "user_id", Raw |-> <<"V", Quote, "2">>],
        [Name |-> "user_id", Raw |-> <<"V", "2">>],
        [Name |-> "slack_access_token", Raw |-> <<"t", "2">>]>> }

WithoutName(header, name) == SelectSeq(header, LAMBDA c : c.Name # name)

\* ----------------------------------------- hop 2: SpotifyCallbackHandler
\* The router hands a GET /spotify/callback to the handler.  The request
\* carries the cookies of one answered hop 1 (jar = that request), or that
\* jar less its slack_access_token, or no cookie, or forged cookies (jar = 0).
\* Only Token (line 80) reads the query, so a request that lacks a carrier
\* comes with the one query that would pass.
StartHop2(i) ==
    /\ CanStart(i)
    /\ \E q \in Queries :
       \E jh \in  { <<j, Jar(j)>> : j \in {k \in Requests : Issued(k)} }
            \cup { <<0, WithoutName(Jar(j), "slack_access_token")>> :
                      j \in {k \in Requests : Issued(k)} }
            \cup { <<0, f>> : f \in ForgedHeaders \cup {<<>>} } :
          /\ (Cookie(jh[2], "user_id").err \/ Cookie(jh[2], "slack_access_token").err)
             => q = CodeQuery
          /\ reqs' = [reqs EXCEPT ![i] =
                         [NoRequest EXCEPT !.kind = "hop2", !.pc = "cookie_user",
                                           !.query = q, !.jar = jh[1], !.cookies = jh[2]]]
    /\ UNCHANGED <<addUserCalls, now, exited>>

\* Lines 63-71: r.Cookie("user_id").
Hop2CookieUser(i) ==
    /\ At(i, "hop2", "cookie_user")
    /\ LET r == reqs[i]
           userID == Cookie(r.cookies, "user_id")
       IN  IF userID.err
           THEN Fail(i, r, app_error.InvalidCookie)
           ELSE /\ reqs' = [reqs EXCEPT ![i] =
                               [r EXCEPT !.pc = "cookie_slack", !.userID = userID.Value]]
                /\ UNCHANGED exited
    /\ UNCHANGED <<addUserCalls, now>>

\* Mutant of Hop2CookieSlack: the return after the error is missing.
Hop2CookieSlackNoReturn(i) ==
    /\ At(i, "hop2", "cookie_slack")
    /\ LET r == reqs[i]
           slackAccessToken == Cookie(r.cookies, "slack_access_token")
       IN  /\ reqs' = [reqs EXCEPT ![i] =
                          [r EXCEPT !.pc = "token",
                                    !.slackAccessToken = slackAccessToken.Value,
                                    !.w = IF slackAccessToken.err
                                          THEN writeResponse(r.w, app_error.InvalidCookie.message,
                                                             app_error.InvalidCookie.status)
                                          ELSE r.w]]
           /\ UNCHANGED exited
    /\ UNCHANGED <<addUserCalls, now>>

\* Mutant of Hop2CookieSlack: the cookie value is kept in a place all hop-2
\* requests share.
Hop2CookieSlackShared(i) ==
    /\ At(i, "hop2", "cookie_slack")
    /\ LET r == reqs[i]
           slackAccessToken == Cookie(r.cookies, "slack_access_token")
       IN  IF slackAccessToken.err
           THEN Fail(i, r, app_error.InvalidCookie)
           ELSE /\ reqs' = [k \in Requests |->
                               IF k = i
                               THEN [r EXCEPT !.pc = "token",
                                              !.slackAccessToken = slackAccessToken.Value]
                               ELSE IF reqs[k].kind = "hop2" /\ reqs[k].pc # "done"
                                    THEN [reqs[k] EXCEPT !.slackAccessToken =
                                                             slackAccessToken.Value]
                                    ELSE reqs[k]]
                /\ UNCHANGED exited
    /\ UNCHANGED <<addUserCalls, now>>

\* Lines 72-78: r.Cookie("slack_access_token").
Hop2CookieSlack(i) ==
    /\ At(i, "hop2", "cookie_slack")
    /\ LET r == reqs[i]
           slackAccessToken == Cookie(r.cookies, "slack_access_token")
       IN  IF slackAccessToken.err
           THEN Fail(i, r, app_error.InvalidCookie)
           ELSE /\ reqs' = [reqs EXCEPT ![i] =
                               [r EXCEPT !.pc = "token",
                                         !.slackAccessToken = slackAccessToken.Value]]
                /\ UNCHANGED exited
    /\ UNCHANGED <<addUserCalls, now>>

\* Mutant of Hop2Token: a failed exchange is tried again.
Hop2TokenRetry(i) ==
    /\ At(i, "hop2", "token")
    /\ LET r == [reqs[i] EXCEPT !.stateChecked = TokenState(reqs[i])]
           rx == [r EXCEPT !.calls = Append(@, "Token.Exchange"),
                           !.exchangeCtxDone = ExchangeContext(r)]
       IN  IF TokenPrecheckFails(TokenState(reqs[i]), r.query)
           THEN Fail(i, r, app_error.InvalidSpotifyAuthCode)
           ELSE \/ /\ Len(r.calls) < 2
                   /\ reqs' = [reqs EXCEPT ![i] = [rx EXCEPT !.exchange = "failed"]]
                   /\ UNCHANGED exited
                \/ \E tok \in SpotifyTokens :
                     /\ reqs' = [reqs EXCEPT ![i] =
                                    [rx EXCEPT !.pc = "adduser", !.exchange = "ok",
                                               !.spotifyToken = tok]]
                     /\ UNCHANGED exited
    /\ UNCHANGED <<addUserCalls, now>>

\* Lines 80-86: h.spotifyAuthenticator.Token(h.spotifyState, r).  The query
\* is checked first (error, code, state); only then is the code exchanged,
\* and the exchange succeeds with some token or fails.
Hop2Token(i) ==
    /\ At(i, "hop2", "token")
    /\ LET r == [reqs[i] EXCEPT !.stateChecked = TokenState(reqs[i])]
           rx == [r EXCEPT !.calls = Append(@, "Token.Exchange"),
                           !.exchangeCtxDone = ExchangeContext(r)]
       IN  IF TokenPrecheckFails(TokenState(reqs[i]), r.query)
           THEN Fail(i, r, app_error.InvalidSpotifyAuthCode)
           ELSE \/ Fail(i, [rx EXCEPT !.exchange = "failed"], app_error.InvalidSpotifyAuthCode)
                \/ \E tok \in SpotifyTokens :
                     /\ reqs' = [reqs EXCEPT ![i] =
                                    [rx EXCEPT !.pc = "adduser", !.exchange = "ok",
                                               !.spotifyToken = tok]]
                     /\ UNCHANGED exited
    /\ UNCHANGED <<addUserCalls, now>>

\* Mutant of Hop2AddUser: the error of AddUser is dropped.
Hop2AddUserIgnoreErr(i) ==
    /\ At(i, "hop2", "adduser")
    /\ LET r == [reqs[i] EXCEPT !.calls = Append(@, "AddUser")]
           user == NewUser(r.userID, r.slackAccessToken, r.spotifyToken)
       IN  \E err \in BOOLEAN :
             /\ addUserCalls' = [addUserCalls EXCEPT ![i] =
                                    Append(@, [user |-> user, err |-> err,
                                               ctxDone |-> RequestContext(r)])]
             /\ reqs' = [reqs EXCEPT ![i] = [r EXCEPT !.pc = "serve"]]
    /\ UNCHANGED <<now, exited>>

\* Lines 88-103: the user record and h.services.AddUser(ctx, user), which
\* succeeds or fails; ctx is the request's context as it is at the call.
Hop2AddUser(i) ==
    /\ At(i, "hop2", "adduser")
    /\ LET r == [reqs[i] EXCEPT !.calls = Append(@, "AddUser")]
           user == NewUser(r.userID, r.slackAccessToken, r.spotifyToken)
       IN  \E err \in BOOLEAN :
             /\ addUserCalls' = [addUserCalls EXCEPT ![i] =
                                    Append(@, [user |-> user, err |-> err,
                                               ctxDone |-> RequestContext(r)])]
             /\ IF err
                THEN Fail(i, r, app_error.AddUserError)
                ELSE /\ reqs' = [reqs EXCEPT ![i] = [r EXCEPT !.pc = "serve"]]
                     /\ UNCHANGED exited
    /\ UNCHANGED now

\* Line 105: http.ServeFile of the completion page.
Hop2ServeFile(i) ==
    /\ At(i, "hop2", "serve")
    /\ reqs' = [reqs EXCEPT ![i] = [@ EXCEPT !.pc = "done", !.w = ServeFile(reqs[i].w)]]
    /\ UNCHANGED <<addUserCalls, now, exited>>

\* The client of a hop 2 closes its connection at any position of the
\* handler, from before line 65 to the ServeFile of line 105: net/http cancels
\* r.Context(), and the handler goes on running.  SlackCallbackHandler never
\* takes the request's context.
ClientDisconnect(i) ==
    /\ ~exited
    /\ reqs[i].kind = "hop2"
    /\ reqs[i].pc # "done"
    /\ ~reqs[i].gone
    /\ reqs' = [reqs EXCEPT ![i].gone = TRUE]
    /\ UNCHANGED <<addUserCalls, now, exited>>

\* ------------------------------------------------------------------ time
\* The clock advances an hour at a time.  Time is read only by line 157 and
\* by the client's cookie store, so the clock is advanced only where one of
\* them is about to read it: a hop 1 is at line 157, or a request can arrive
\* from a client that holds cookies.
Tick ==
    /\ now < MaxTicks * OneHour
    /\ \/ \E i \in Requests : At(i, "hop1", "issue")
       \/ (\E i \in Requests : CanStart(i)) /\ (\E j \in Requests : Issued(j))
    /\ now' = now + OneHour
    /\ UNCHANGED <<reqs, addUserCalls, exited>>

Next ==
    \/ \E i \in Requests : StartHop1(i)
    \/ \E i \in Requests : Hop1Post(i)
    \/ \E i \in Requests : Hop1ReadAll(i)
    \/ \E i \in Requests : Hop1Unmarshal(i)
    \/ \E i \in Requests : Hop1Issue(i)
    \/ \E i \in Requests : StartHop2(i)
    \/ \E i \in Requests : Hop2CookieUser(i)
    \/ \E i \in Requests : Hop2CookieSlack(i)
    \/ \E i \in Requests : Hop2Token(i)
    \/ \E i \in Requests : Hop2AddUser(i)
    \/ \E i \in Requests : Hop2ServeFile(i)
    \/ \E i \in Requests : ClientDisconnect(i)
    \/ Tick

Spec == Init /\ [][Next]_vars

\* ============================================================ properties
\* What the client of request i was sent.
Answered(i) == reqs[i].pc = "done"

IsError(i, appError) ==
    /\ reqs[i].w.status = appError.status
    /\ reqs[i].w.body = <<Marshal(appError.message).bytes>>

Logged(i, what) == \E k \in 1..Len(reqs[i].w.log) : reqs[i].w.log[k] = what

AssetServed(i) ==
    \/ Logged(i, "ServeFile")
    \/ \E k \in 1..Len(reqs[i].w.body) : reqs[i].w.body[k] = CompletedAsset

HasCookie(header, name) == \E k \in 1..Len(header) : header[k].Name = name

\* The first position of x in seq, 0 if it is not there.
IndexOf(seq, x) ==
    IF \E k \in 1..Len(seq) : seq[k] = x
    THEN CHOOSE k \in 1..Len(seq) : seq[k] = x /\ \A m \in 1..(k - 1) : seq[m] # x
    ELSE 0

\* C1: a hop-2 request that lacks the user_id cookie or the
\* slack_access_token cookie never gets past the cookie reads, never calls
\* AddUser, and is answered with the InvalidCookie error and its status.
C1_MissingCarrierRejected ==
    \A i \in Requests :
        (/\ reqs[i].kind = "hop2"
         /\ \/ ~HasCookie(reqs[i].cookies, "user_id")
            \/ ~HasCookie(reqs[i].cookies, "slack_access_token"))
        => /\ addUserCalls[i] = <<>>
           /\ reqs[i].pc \in {"cookie_user", "cookie_slack", "done"}
           /\ Answered(i) => IsError(i, app_error.InvalidCookie)

\* A hop 2 that carried user_id but no slack_access_token has been answered.
C1_Witness ==
    \E i \in Requests :
        /\ reqs[i].kind = "hop2" /\ Answered(i)
        /\ HasCookie(reqs[i].cookies, "user_id")
        /\ ~HasCookie(reqs[i].cookies, "slack_access_token")
        /\ IsError(i, app_error.InvalidCookie)

\* C2 (as claimed): a hop 2 that carried exactly the cookies issued by the
\* successful hop 1 j and served the completion page made exactly one AddUser
\* call, whose fields are the id and access token of j's chat token response
\* and the four fields of the music token, all unmodified.
C2_VerbatimLink ==
    \A i \in Requests :
        (/\ reqs[i].kind = "hop2" /\ Answered(i) /\ AssetServed(i)
         /\ reqs[i].jar # 0)
        => /\ Len(addUserCalls[i]) = 1
           /\ addUserCalls[i][1].user =
                 [SlackUserID         |-> reqs[reqs[i].jar].body.id.s,
                  SlackAccessToken    |-> reqs[reqs[i].jar].body.access_token.s,
                  SpotifyAccessToken  |-> reqs[i].spotifyToken.AccessToken,
                  SpotifyRefreshToken |-> reqs[i].spotifyToken.RefreshToken,
                  SpotifyExpiry       |-> reqs[i].spotifyToken.Expiry,
                  SpotifyTokenType    |-> reqs[i].spotifyToken.TokenType]

\* C3: hop 1 never calls AddUser; while only hop-1 requests have arrived there
\* is no AddUser call at all, and every hop 1 answered by the redirect has
\* delivered its own pair of carriers.
C3_Hop1NeverAddsUser ==
    /\ \A i \in Requests : reqs[i].kind = "hop1" => addUserCalls[i] = <<>>
    /\ (\A i \in Requests : reqs[i].kind # "hop2")
          => \A i \in Requests : addUserCalls[i] = <<>>
    /\ \A i \in Requests :
          (reqs[i].kind = "hop1" /\ Answered(i) /\ reqs[i].w.status = StatusSeeOther)
          => /\ Len(reqs[i].w.sent.SetCookie) = 2
             /\ reqs[i].w.sent.SetCookie[1].Name = "user_id"
             /\ reqs[i].w.sent.SetCookie[2].Name = "slack_access_token"

\* Hop 1 was replayed: two hop-1 requests were answered by the redirect.
C3_Witness ==
    \E i, j \in Requests :
        /\ i # j
        /\ \A k \in {i, j} : /\ reqs[k].kind = "hop1" /\ Answered(k)
                             /\ reqs[k].w.status = StatusSeeOther
        /\ \A k \in Requests : addUserCalls[k] = <<>>

\* C4 (as claimed): every AddUser call has a non-empty SlackUserID and a
\* non-empty SlackAccessToken.
C4_NonEmptyIdentity ==
    \A i \in Requests : \A k \in 1..Len(addUserCalls[i]) :
        /\ addUserCalls[i][k].user.SlackUserID # <<>>
        /\ addUserCalls[i][k].user.SlackAccessToken # <<>>

\* C5 (as claimed): a hop 1 whose chat token endpoint answered with a status
\* outside 2xx is answered with the SlackAuthBadRequest error, sets no cookie
\* and does not redirect.
C5_Non2xxRejected ==
    \A i \in Requests :
        (/\ reqs[i].kind = "hop1" /\ Answered(i)
         /\ reqs[i].chatStatus # 0
         /\ reqs[i].chatStatus \notin 200..299)
        => /\ IsError(i, app_error.SlackAuthBadRequest)
           /\ reqs[i].w.header.SetCookie = <<>>
           /\ ~Logged(i, "Redirect")

\* C6: a hop 1 whose POST failed in transport, or whose response body could
\* not be read, or whose body is not JSON, is answered with the
\* SlackAuthBadRequest error and its status, sets no cookie and does not
\* redirect.
C6_UnreadableChatAnswerRejected ==
    \A i \in Requests :
        (/\ reqs[i].kind = "hop1" /\ Answered(i)
         /\ \/ reqs[i].chatErr \in {"post", "read"}
            \/ reqs[i].body.kind = "garbage")
        => /\ IsError(i, app_error.SlackAuthBadRequest)
           /\ reqs[i].w.header.SetCookie = <<>>
           /\ reqs[i].w.status # StatusSeeOther
           /\ ~Logged(i, "Redirect")

\* A hop 1 whose chat response body was not JSON has been answered.
C6_Witness ==
    \E i \in Requests :
        /\ reqs[i].kind = "hop1" /\ Answered(i)
        /\ reqs[i].body.kind = "garbage"
        /\ IsError(i, app_error.SlackAuthBadRequest)

BothCarriers(i) ==
    /\ ~FindCookie(reqs[i].cookies, "user_id", 1).err
    /\ ~FindCookie(reqs[i].cookies, "slack_access_token", 1).err

\* C7: a hop 2 with both carriers whose state differs from spotifyState, or
\* whose token exchange failed, never calls AddUser, never serves the
\* completion page, and is answered with the InvalidSpotifyAuthCode error.
C7_BadMusicCodeRejected ==
    \A i \in Requests :
        (/\ reqs[i].kind = "hop2" /\ BothCarriers(i)
         /\ \/ reqs[i].query.state # spotifyState
            \/ reqs[i].exchange = "failed")
        => /\ addUserCalls[i] = <<>>
           /\ reqs[i].pc \notin {"adduser", "serve"}
           /\ ~AssetServed(i)
           /\ Answered(i) => IsError(i, app_error.InvalidSpotifyAuthCode)

\* A hop 2 with both carriers and another state than spotifyState has been
\* answered.
C7_Witness ==
    \E i \in Requests :
        /\ reqs[i].kind = "hop2" /\ BothCarriers(i) /\ Answered(i)
        /\ reqs[i].query.state # spotifyState
        /\ IsError(i, app_error.InvalidSpotifyAuthCode)

AddUserFailed(i) == \E k \in 1..Len(addUserCalls[i]) : addUserCalls[i][k].err

\* C8: a hop 2 whose AddUser call returned an error is answered with
\* AddUserError's status and the JSON error body of writeResponse, and the
\* completion page is not served.
C8_AddUserErrorReported ==
    \A i \in Requests :
        (reqs[i].kind = "hop2" /\ AddUserFailed(i))
        => /\ Answered(i)
           /\ IsError(i, app_error.AddUserError)
           /\ Logged(i, "writeResponse")
           /\ ~AssetServed(i)

\* AddUser has failed for a hop 2.
C8_Witness ==
    \E i \in Requests :
        /\ reqs[i].kind = "hop2" /\ AddUserFailed(i)
        /\ reqs[i].w.status = app_error.AddUserError.status

\* C9 (as claimed): a hop 1 answered by the redirect has set exactly two
\* cookies before redirecting, user_id holding the id and slack_access_token
\* the access token of the chat response, both expiring one hour after
\* issuance, and the 303 goes to the authorization URL of spotifyState.
C9_CarriersThenRedirect ==
    \A i \in Requests :
        (reqs[i].kind = "hop1" /\ Answered(i) /\ reqs[i].w.status = StatusSeeOther)
        => LET c == reqs[i].w.sent.SetCookie
           IN  /\ Len(c) = 2
               /\ c[1].Name = "user_id"
               /\ parseCookieValue(c[1].Raw) = [ok |-> TRUE, value |-> reqs[i].body.id.s]
               /\ c[2].Name = "slack_access_token"
               /\ parseCookieValue(c[2].Raw) =
                     [ok |-> TRUE, value |-> reqs[i].body.access_token.s]
               /\ c[1].Expires = reqs[i].issuedAt + OneHour
               /\ c[2].Expires = c[1].Expires
               /\ reqs[i].w.log[1] = "SetCookie" /\ reqs[i].w.log[2] = "SetCookie"
               /\ IndexOf(reqs[i].w.log, "Redirect") = 3
               /\ reqs[i].w.sent.Location = AuthURL(spotifyState)

\* C10 (as claimed): wherever writeResponse ran, the Content-Type header was
\* set before the status was written and the status before the body, and the
\* response went out with Content-Type application/json.
C10_HeaderBeforeStatusBeforeBody ==
    \A i \in Requests :
        Logged(i, "writeResponse")
        => /\ IndexOf(reqs[i].w.log, "Header.Set") < IndexOf(reqs[i].w.log, "WriteHeader")
           /\ IndexOf(reqs[i].w.log, "WriteHeader") < IndexOf(reqs[i].w.log, "Write")
           /\ reqs[i].w.sent.ContentType = "application/json"

\* How many times x occurs in seq.
Count(seq, x) == Cardinality({k \in 1..Len(seq) : seq[k] = x})

\* C11 (as claimed): no cancellation reaches the work of a request: the
\* token exchange and every AddUser call run under a context that the
\* client's disconnect has not cancelled.
C11_NoCancellationReachesWork ==
    \A i \in Requests :
        /\ ~reqs[i].exchangeCtxDone
        /\ \A k \in 1..Len(addUserCalls[i]) : ~addUserCalls[i][k].ctxDone

\* C11 (amended): a disconnect never stops the handler and never cancels the
\* token exchange: for a hop 2 whose client is gone, at whatever position it
\* went, the exchange ran under a context that is not cancelled, a successful
\* exchange is still followed by exactly one AddUser call with the user built
\* from the cookies and the token, and the answer is the one that the cookies
\* and the outcomes of the two calls decide.
\* Only AddUser is handed the request's context, which the disconnect cancels.
C11_HandlerRunsOn ==
    \A i \in Requests :
        (reqs[i].kind = "hop2" /\ reqs[i].gone)
        => /\ ~reqs[i].exchangeCtxDone
           /\ (reqs[i].exchange = "ok" /\ reqs[i].pc # "adduser")
              => /\ Len(addUserCalls[i]) = 1
                 /\ addUserCalls[i][1].user =
                       NewUser(reqs[i].userID, reqs[i].slackAccessToken, reqs[i].spotifyToken)
           /\ \A k \in 1..Len(addUserCalls[i]) :
                 addUserCalls[i][k].ctxDone => reqs[i].gone
           /\ Answered(i)
              => IF ~BothCarriers(i) THEN IsError(i, app_error.InvalidCookie)
                 ELSE IF reqs[i].exchange # "ok"
                 THEN IsError(i, app_error.InvalidSpotifyAuthCode)
                 ELSE IF AddUserFailed(i) THEN IsError(i, app_error.AddUserError)
                 ELSE AssetServed(i)

\* The client of a hop 2 went away before AddUser was called; the exchange
\* had succeeded and AddUser was called with the cancelled context.
C11_Witness ==
    \E i \in Requests :
        /\ reqs[i].kind = "hop2" /\ reqs[i].gone
        /\ reqs[i].exchange = "ok" /\ ~reqs[i].exchangeCtxDone
        /\ Len(addUserCalls[i]) = 1 /\ addUserCalls[i][1].ctxDone

\* C12: no retries.  In one request the chat token POST, the music token
\* exchange and AddUser are each attempted at most once; a failure of any of
\* them ends the request at once; and a request writes no response before it
\* ends and exactly one (an error through writeResponse, the redirect, or the
\* completion page) when it ends.
C12_NoRetries ==
    \A i \in Requests :
        /\ Count(reqs[i].calls, "http.Post") <= 1
        /\ Count(reqs[i].calls, "Token.Exchange") <= 1
        /\ Count(reqs[i].calls, "AddUser") <= 1
        /\ Len(addUserCalls[i]) <= 1
        /\ (reqs[i].chatErr # "" \/ reqs[i].exchange = "failed" \/ AddUserFailed(i))
           => (Answered(i) /\ Count(reqs[i].w.log, "writeResponse") = 1)
        /\ Count(reqs[i].w.log, "writeResponse") + Count(reqs[i].w.log, "Redirect")
             + Count(reqs[i].w.log, "ServeFile")
           = IF Answered(i) THEN 1 ELSE 0

\* A music token exchange has failed, once, and the request was answered.
C12_Witness ==
    \E i \in Requests :
        /\ reqs[i].kind = "hop2" /\ reqs[i].exchange = "failed" /\ Answered(i)
        /\ Count(reqs[i].calls, "Token.Exchange") = 1
        /\ Count(reqs[i].w.log, "writeResponse") = 1

\* What SlackCallbackHandler answers when request r runs alone: a function
\* of what r received (the chat endpoint's answer and the time of line 157).
Hop1Alone(r) ==
    IF r.chatErr # "" \/ Unmarshal(r.body).err
    THEN writeResponse(NewResponseWriter, app_error.SlackAuthBadRequest.message,
                       app_error.SlackAuthBadRequest.status)
    ELSE Redirect(SetCookie(SetCookie(NewResponseWriter, "user_id",
                                      Unmarshal(r.body).Id, r.issuedAt + OneHour),
                            "slack_access_token", Unmarshal(r.body).AccessToken,
                            r.issuedAt + OneHour),
                  AuthURL(spotifyState), StatusSeeOther)

\* The same for SpotifyCallbackHandler: a function of r's cookies and query
\* and of the outcomes of its own token exchange and AddUser call.
Hop2Alone(r, calls) ==
    IF Cookie(r.cookies, "user_id").err \/ Cookie(r.cookies, "slack_access_token").err
    THEN writeResponse(NewResponseWriter, app_error.InvalidCookie.message,
                       app_error.InvalidCookie.status)
    ELSE IF TokenPrecheckFails(spotifyState, r.query) \/ r.exchange = "failed"
    THEN writeResponse(NewResponseWriter, app_error.InvalidSpotifyAuthCode.message,
                       app_error.InvalidSpotifyAuthCode.status)
    ELSE IF calls # <<>> /\ calls[1].err
    THEN writeResponse(NewResponseWriter, app_error.AddUserError.message,
                       app_error.AddUserError.status)
    ELSE ServeFile(NewResponseWriter)

\* The AddUser arguments of request r when it runs alone.
Hop2AloneUser(r) ==
    NewUser(Cookie(r.cookies, "user_id").Value,
            Cookie(r.cookies, "slack_access_token").Value, r.spotifyToken)

AsAlone ==
    \A i \in Requests :
        /\ (reqs[i].kind = "hop1" /\ Answered(i)) => reqs[i].w = Hop1Alone(reqs[i])
        /\ (reqs[i].kind = "hop2" /\ Answered(i))
           => reqs[i].w = Hop2Alone(reqs[i], addUserCalls[i])
        /\ \A k \in 1..Len(addUserCalls[i]) :
              addUserCalls[i][k].user = Hop2AloneUser(reqs[i])

\* C13: requests are independent.  Whatever the interleaving, each answered
\* request has the response, and each AddUser call the arguments, that the
\* request has when it runs alone; and no step touches the locals, the
\* response or the AddUser calls of two requests.
C13_RequestsIndependent ==
    /\ []AsAlone
    /\ [][ \A i, j \in Requests :
              (/\ <<reqs[i], addUserCalls[i]>>' # <<reqs[i], addUserCalls[i]>>
               /\ <<reqs[j], addUserCalls[j]>>' # <<reqs[j], addUserCalls[j]>>)
              => i = j ]_vars

\* Two hop-2 requests are in flight together, one past its AddUser call and
\* one before it.
C13_Witness ==
    \E i, j \in Requests :
        /\ i # j
        /\ reqs[i].kind = "hop2" /\ reqs[i].pc = "serve" /\ Len(addUserCalls[i]) = 1
        /\ reqs[j].kind = "hop2" /\ reqs[j].pc = "adduser"

\* seq is an initial part of full.
IsPrefix(seq, full) == Len(seq) <= Len(full) /\ \A k \in 1..Len(seq) : seq[k] = full[k]

\* C14: hop 2 runs carrier read, token exchange, AddUser, completion page in
\* that order: Token is invoked only after both cookies were found, AddUser
\* only after the exchange succeeded, and the page is served only after
\* AddUser returned (without error).
C14_Hop2Order ==
    \A i \in Requests :
        reqs[i].kind = "hop2"
        => /\ (reqs[i].stateChecked # "" \/ reqs[i].pc = "token") => BothCarriers(i)
           /\ Count(reqs[i].calls, "Token.Exchange") > 0 => BothCarriers(i)
           /\ IsPrefix(reqs[i].calls, <<"Token.Exchange", "AddUser">>)
           /\ Len(addUserCalls[i]) > 0 => reqs[i].exchange = "ok"
           /\ (reqs[i].pc = "serve" \/ AssetServed(i))
              => /\ Len(addUserCalls[i]) = 1
                 /\ ~addUserCalls[i][1].err
                 /\ reqs[i].calls = <<"Token.Exchange", "AddUser">>

\* A hop 2 has gone through all four steps.
C14_Witness ==
    \E i \in Requests :
        /\ reqs[i].kind = "hop2" /\ Answered(i) /\ AssetServed(i)
        /\ reqs[i].calls = <<"Token.Exchange", "AddUser">>

\* C15: the state placed in the authorization URL of every redirecting hop 1
\* and the state every hop-2 Token call compared the callback with are one
\* value, the spotifyState the handlers were built with.
C15_OneAuthorizationState ==
    /\ \A i \in Requests :
          (reqs[i].kind = "hop1" /\ Answered(i) /\ reqs[i].w.status = StatusSeeOther)
          => reqs[i].w.sent.Location = AuthURL(spotifyState)
    /\ \A j \in Requests : reqs[j].stateChecked \in {"", spotifyState}
    /\ \A i, j \in Requests :
          (/\ reqs[i].kind = "hop1" /\ Answered(i) /\ reqs[i].w.status = StatusSeeOther
           /\ reqs[j].kind = "hop2" /\ reqs[j].stateChecked # "")
          => reqs[i].w.sent.Location[2] = reqs[j].stateChecked

\* A hop 1 has redirected and a hop 2 carrying another state than the
\* configured one has had it compared.
C15_Witness ==
    \E i, j \in Requests :
        /\ reqs[i].kind = "hop1" /\ Answered(i) /\ reqs[i].w.status = StatusSeeOther
        /\ reqs[j].kind = "hop2" /\ reqs[j].stateChecked # ""
        /\ reqs[j].query.state # spotifyState

\* C16: an answered hop 2 has served the completion page exactly when both
\* carriers were present, the token exchange succeeded and AddUser succeeded;
\* a hop 2 that served the page never called writeResponse, and one that is
\* not answered yet has served nothing.
C16_AssetIffAllSucceeded ==
    \A i \in Requests :
        reqs[i].kind = "hop2"
        => /\ Answered(i)
              => (AssetServed(i) <=> /\ BothCarriers(i)
                                     /\ reqs[i].exchange = "ok"
                                     /\ Len(addUserCalls[i]) = 1
                                     /\ ~AddUserFailed(i))
           /\ AssetServed(i) => (Answered(i) /\ ~Logged(i, "writeResponse"))

\* A hop 2 has served the completion page.
C16_Witness ==
    \E i \in Requests :
        /\ reqs[i].kind = "hop2" /\ Answered(i) /\ AssetServed(i)
        /\ reqs[i].w.body = <<CompletedAsset>>

\* Every cookie of request i is one that the hop 1 of request j delivered.
CarriersFrom(i, j) ==
    /\ reqs[j].kind = "hop1" /\ Answered(j) /\ reqs[j].w.status = StatusSeeOther
    /\ \A k \in 1..Len(reqs[i].cookies) :
          \E m \in 1..Len(reqs[j].w.sent.SetCookie) :
              /\ reqs[j].w.sent.SetCookie[m].Name = reqs[i].cookies[k].Name
              /\ reqs[j].w.sent.SetCookie[m].Raw = reqs[i].cookies[k].Raw

\* The pair of values that the hop 1 of request j issued, as r.Cookie reads
\* them.
IssuedPair(j) ==
    <<parseCookieValue(reqs[j].w.sent.SetCookie[1].Raw).value,
      parseCookieValue(reqs[j].w.sent.SetCookie[2].Raw).value>>

\* C17: a link is recorded only after hop 1 and hop 2 in that order.  For a
\* hop 2 whose cookies all come, unmodified, from a hop 1, every AddUser call
\* carries a (SlackUserID, SlackAccessToken) pair that one answered,
\* redirecting hop 1 issued together.
C17_OnlyIssuedIdentities ==
    \A i \in Requests :
        (reqs[i].kind = "hop2" /\ \E j \in Requests : CarriersFrom(i, j))
        => \A k \in 1..Len(addUserCalls[i]) :
              \E j \in Requests :
                  /\ CarriersFrom(i, j)
                  /\ <<addUserCalls[i][k].user.SlackUserID,
                       addUserCalls[i][k].user.SlackAccessToken>> = IssuedPair(j)

\* A hop 2 carrying the cookies of a hop 1 has called AddUser.
C17_Witness ==
    \E i \in Requests :
        /\ reqs[i].kind = "hop2" /\ reqs[i].jar # 0 /\ CarriersFrom(i, reqs[i].jar)
        /\ Len(addUserCalls[i]) = 1
        /\ addUserCalls[i][1].user.SlackUserID # <<>>

\* C18: hop 1 issues both carriers or none.  A hop 1 has set no cookie, or
\* exactly user_id and slack_access_token, holding (in cookie encoding) the
\* id and the access token of its own chat response and one same expiry; an
\* answered hop 1 has delivered exactly the cookies it set, two if it
\* redirected and none if it answered with an error.
C18_BothCarriersOrNone ==
    \A i \in Requests :
        reqs[i].kind = "hop1"
        => LET c == reqs[i].w.header.SetCookie
           IN  /\ \/ c = <<>>
                  \/ /\ Len(c) = 2
                     /\ c[1].Name = "user_id"
                     /\ c[1].Raw = sanitizeCookieValue(reqs[i].body.id.s)
                     /\ c[2].Name = "slack_access_token"
                     /\ c[2].Raw = sanitizeCookieValue(reqs[i].body.access_token.s)
                     /\ c[1].Expires = c[2].Expires
               /\ Answered(i)
                  => /\ reqs[i].w.sent.SetCookie = c
                     /\ Len(c) = IF reqs[i].w.status = StatusSeeOther THEN 2 ELSE 0

\* One hop 1 has issued both carriers, its access token holding a byte that
\* the cookie encoding drops, and another hop 1 has issued none.
C18_Witness ==
    \E i, j \in Requests :
        /\ reqs[i].kind = "hop1" /\ Answered(i) /\ Len(reqs[i].w.sent.SetCookie) = 2
        /\ reqs[i].w.sent.SetCookie[2].Raw # reqs[i].body.access_token.s
        /\ reqs[j].kind = "hop1" /\ Answered(j) /\ reqs[j].w.sent.SetCookie = <<>>

\* C19: the process ends exactly when json.Marshal fails inside writeResponse
\* (log.Fatalf), and then no body was written; a missing carrier, a failed
\* exchange and a failed AddUser leave the process running.
C19_OnlyMarshalFailureIsFatal ==
    /\ exited <=> \E i \in Requests : Logged(i, "log.Fatalf")
    /\ \A i \in Requests : Logged(i, "log.Fatalf") => reqs[i].w.body = <<>>
    /\ \A i \in Requests :
          (\/ IsError(i, app_error.InvalidCookie)
           \/ IsError(i, app_error.InvalidSpotifyAuthCode)
           \/ IsError(i, app_error.AddUserError)
           \/ IsError(i, app_error.SlackAuthBadRequest))
          => ~Logged(i, "log.Fatalf")

\* A request has failed on AddUser and another on a missing carrier, and the
\* process is running.
C19_Witness ==
    \E i, j \in Requests :
        /\ IsError(i, app_error.AddUserError) /\ AddUserFailed(i)
        /\ reqs[j].kind = "hop2" /\ IsError(j, app_error.InvalidCookie)
        /\ ~exited

====
